---- MODULE Spec2Model ----
(***************************************************************************)
(* tasktracker: the in-memory TaskService (src/tasktracker/services.py)    *)
(* with the Task entity (src/tasktracker/models.py) and the time helpers   *)
(* (src/tasktracker/utils.py).                                             *)
(*                                                                         *)
(* One action per public call.  A call runs to completion in one step,     *)
(* except delete_task, which is split at the point between its _log call   *)
(* and its `del`, so that the order of the two effects can be observed.    *)
(* The variable `last` is an observer: while a result is pending           *)
(* (pc = "returned") it records what the call was, how it ended and how    *)
(* many times it read the clock.                                           *)
(*                                                                         *)
(* Task.to_dict and Task.from_dict are pure; they are exercised by a       *)
(* specification of their own, RoundTrip, on the variable rt.              *)
(***************************************************************************)
EXTENDS Integers, Sequences, FiniteSets, TLC

VARIABLES store, history, issued, pc, last, rt

vars == <<store, history, issued, pc, last, rt>>

(* ------------------------------ bounds -------------------------------- *)

\* number of ids uuid4 may hand out (number of successful creates)
MaxTasks == 2
\* number of history events (number of calls that take effect)
MaxHist == 3

(* --------------------------- values and inputs ------------------------ *)

\* Optional[T]: None is the empty sequence, a supplied value x is <<x>>
None == <<>>

Some(x) == <<x>>

\* a str is a sequence of characters; the only whitespace used is the blank
Whitespace == {" "}

\* the calls offered to create_task: two that are valid, differing in every
\* argument, and four with a title or a priority that must be rejected
\* (titles "", " ", "a", "b "; priorities 0, 1, 5, 6)
CreateInput(title, description, priority) ==
    [title |-> title, description |-> description, priority |-> priority]

CreateInputs ==
    { CreateInput(<<"a">>, "", 1),
      CreateInput(<<"b", " ">>, "d", 5),
      CreateInput(<<>>, "d", 1),
      CreateInput(<<" ">>, "", 1),
      CreateInput(<<"a">>, "", 0),
      CreateInput(<<"a">>, "d", 6) }

\* ids a caller may address: the ids that can be issued (an id addressed
\* before it is issued, or after its task is deleted, is not in the store)
IdInputs == 1..MaxTasks

(* ------------------------------ utils.py ------------------------------ *)

\* an aware datetime is its wall-clock reading and its UTC offset
instant(dt) == dt.wall - dt.off

\* the instants the clock may show, in any order
Instants == {1, 2}

\* utcnow(): datetime.now(timezone.utc), always offset 0; which instant it
\* returns is up to the clock (the tests substitute arbitrary sequences)
utcnow == { [wall |-> t, off |-> 0] : t \in Instants }

\* variant: the wall-clock reading is written out without converting it
to_iso_local(dt) == << dt.wall, 0 >>

\* to_iso(dt): dt.astimezone(utc).isoformat(); the text is modelled as the
\* pair <<wall-clock reading, offset suffix>>
to_iso(dt) == << dt.wall - dt.off, 0 >>

\* from_iso(s): fromisoformat(s).astimezone(utc)
from_iso(s) == [wall |-> s[1] - s[2], off |-> 0]

(* ------------------------------ models.py ----------------------------- *)

\* class TaskStatus(str, Enum): a member is its name and its value
TaskStatusMembers ==
    { [name |-> "OPEN", value |-> "OPEN"],
      [name |-> "IN_PROGRESS", value |-> "IN_PROGRESS"],
      [name |-> "DONE", value |-> "DONE"] }

\* class TaskPriority(IntEnum)
TaskPriorityMembers ==
    { [name |-> "ONE", value |-> 1], [name |-> "TWO", value |-> 2],
      [name |-> "THREE", value |-> 3], [name |-> "FOUR", value |-> 4],
      [name |-> "FIVE", value |-> 5] }

\* TaskStatus(tok) succeeds iff some member has that value
IsTaskStatus(tok) == \E m \in TaskStatusMembers : m.value = tok

TaskStatus(tok) == CHOOSE m \in TaskStatusMembers : m.value = tok

IsTaskPriority(n) == \E m \in TaskPriorityMembers : m.value = n

TaskPriority(n) == CHOOSE m \in TaskPriorityMembers : m.value = n

OPEN == TaskStatus("OPEN")

\* Task(...) followed by __post_init__: a raw int priority becomes a member
Task(id, title, description, status, priority, created_at, updated_at) ==
    [ id |-> id, title |-> title, description |-> description,
      status |-> status, priority |-> TaskPriority(priority),
      created_at |-> created_at, updated_at |-> updated_at ]

\* to_dict(): the enum members by their values, the datetimes as text
to_dict(t) ==
    [ id |-> t.id, title |-> t.title, description |-> t.description,
      status |-> t.status.value, priority |-> t.priority.value,
      created_at |-> to_iso(t.created_at),
      updated_at |-> to_iso(t.updated_at) ]

\* from_dict(data): the datetimes parsed, the raw status made a member (the
\* raw priority is made a member here and again, to no effect, by
\* __post_init__)
from_dict(data) ==
    Task(data.id, data.title, data.description, TaskStatus(data.status),
         data.priority, from_iso(data.created_at), from_iso(data.updated_at))

\* datetime.__eq__ on aware datetimes: the same instant
datetime_eq(dt1, dt2) == instant(dt1) = instant(dt2)

\* the __eq__ the dataclass generates: field by field
Task_eq(t1, t2) ==
    /\ t1.id = t2.id
    /\ t1.title = t2.title
    /\ t1.description = t2.description
    /\ t1.status = t2.status
    /\ t1.priority = t2.priority
    /\ datetime_eq(t1.created_at, t2.created_at)
    /\ datetime_eq(t1.updated_at, t2.updated_at)

(* ---------------------- dict with insertion order --------------------- *)

\* self._store is a dict: a sequence of (key, val) entries, keys distinct
HasKey(d, k) == \E i \in 1..Len(d) : d[i].key = k

IndexOf(d, k) == CHOOSE i \in 1..Len(d) : d[i].key = k

GetItem(d, k) == d[IndexOf(d, k)].val

\* variant: the dict is rebound to a new dict holding only the new entry
SetItem_rebound(d, k, v) == <<[key |-> k, val |-> v]>>

\* d[k] = v: overwrite in place if the key exists, else insert at the end
SetItem(d, k, v) ==
    IF HasKey(d, k)
    THEN [d EXCEPT ![IndexOf(d, k)] = [key |-> k, val |-> v]]
    ELSE Append(d, [key |-> k, val |-> v])

\* variant: the dict is cleared
DelItem_clear(d, k) == <<>>

\* del d[k]
DelItem(d, k) == SelectSeq(d, LAMBDA e : e.key # k)

Keys(d) == { d[i].key : i \in 1..Len(d) }

(* ------------------------- services.py helpers ------------------------ *)

RECURSIVE lstrip(_)
lstrip(s) ==
    IF s # <<>> /\ Head(s) \in Whitespace THEN lstrip(Tail(s)) ELSE s

RECURSIVE rstrip(_)
rstrip(s) ==
    IF s # <<>> /\ s[Len(s)] \in Whitespace
    THEN rstrip(SubSeq(s, 1, Len(s) - 1))
    ELSE s

\* str.strip()
strip(s) == rstrip(lstrip(s))

\* variant: the title is not stripped before it is tested
_validate_title_unstripped(title) == ~ (title = <<>>)

\* _validate_title returns normally (TRUE) or raises ValueError (FALSE)
_validate_title(title) == ~ (title = <<>> \/ strip(title) = <<>>)

\* _validate_priority on an int
_validate_priority(priority) == ~ (priority < 1 \/ priority > 5)

\* _validate_status on a str or a TaskStatus
_validate_status(status) ==
    IF status.kind = "str" THEN IsTaskStatus(status.tok) ELSE TRUE

\* variant: the event is inserted at the front of the list
_log_front(h, action, task_id, event_time) ==
    <<[action |-> action, task_id |-> task_id, at |-> to_iso(event_time)]>> \o h

\* _log with the event time already resolved by the caller
_log(h, action, task_id, event_time) ==
    Append(h, [action |-> action, task_id |-> task_id, at |-> to_iso(event_time)])

\* variant: the id is the number of stored tasks plus one
uuid4_counted(used) == Len(store) + 1

\* uuid.uuid4(): an id that was not issued before; ids are opaque, so the
\* ids are named in the order they are issued
uuid4(used) == CHOOSE i \in 1..(Cardinality(used) + 1) : i \notin used

(* ------------------------------ observer ------------------------------ *)

\* what the latest call was: the operation, the id it addressed (for
\* create_task the id it issued; 0: none), how it ended, the number of clock
\* readings, the number of optional fields supplied, whether a supplied
\* value was invalid, the number of field assignments executed, the value
\* returned (None if none) and the arguments of a create_task, update_task
\* or filter_tasks call
Observe(op, id, outcome, ticks, supplied, invalid, writes, ret, args) ==
    [ op |-> op, id |-> id, outcome |-> outcome, ticks |-> ticks,
      supplied |-> supplied, invalid |-> invalid, writes |-> writes,
      ret |-> ret, args |-> args ]

CreateArgs(title, description, priority) ==
    Some([title |-> title, description |-> description, priority |-> priority])

\* no call is in progress and no result is pending
NoCall == Observe("none", 0, "none", 0, 0, FALSE, 0, None, None)

(* ------------------------------- state -------------------------------- *)

\* rt belongs to the serialization round trip further down; the service
\* does not touch it
NoRoundTrip ==
    [stage |-> "none", t |-> None, d |-> None, t2 |-> None, d2 |-> None]

Init ==
    /\ store = <<>>
    /\ history = <<>>
    /\ issued = {}
    /\ pc = "idle"
    /\ last = NoCall
    /\ rt = NoRoundTrip

(* ------------------------------ create_task --------------------------- *)

\* variant: every task is given the same id
create_task_fixed_id(title, description, priority) ==
    /\ pc = "idle"
    /\ UNCHANGED rt
    /\ pc' = "returned"
    /\ IF ~ _validate_title(title) \/ ~ _validate_priority(priority)
       THEN /\ last' = Observe("create", 0, "InvalidValue", 0, 0, TRUE, 0,
                               None, CreateArgs(title, description, priority))
            /\ UNCHANGED <<store, history, issued>>
       ELSE /\ Cardinality(issued) < MaxTasks
            /\ Len(history) < MaxHist
            /\ \E now \in utcnow :
                 LET task_id == 1
                     task == Task(task_id, title, description, OPEN,
                                  priority, now, now)
                 IN /\ store' = SetItem(store, task_id, task)
                    /\ history' = _log(history, "CREATE", task_id, now)
                    /\ issued' = issued \cup {task_id}
                    /\ last' = Observe("create", task_id, "ok", 1, 0, FALSE,
                                       0, Some(task),
                                       CreateArgs(title, description, priority))

create_task(title, description, priority) ==
    /\ pc = "idle"
    /\ UNCHANGED rt
    /\ pc' = "returned"
    /\ IF ~ _validate_title(title) \/ ~ _validate_priority(priority)
       THEN /\ last' = Observe("create", 0, "InvalidValue", 0, 0, TRUE, 0,
                               None, CreateArgs(title, description, priority))
            /\ UNCHANGED <<store, history, issued>>
       ELSE /\ Cardinality(issued) < MaxTasks
            /\ Len(history) < MaxHist
            /\ \E now \in utcnow :
                 LET task_id == uuid4(issued)
                     task == Task(task_id, title, description, OPEN,
                                  priority, now, now)
                 IN /\ store' = SetItem(store, task_id, task)
                    /\ history' = _log(history, "CREATE", task_id, now)
                    /\ issued' = issued \cup {task_id}
                    /\ last' = Observe("create", task_id, "ok", 1, 0, FALSE,
                                       0, Some(task),
                                       CreateArgs(title, description, priority))

CreateTask ==
    \E a \in CreateInputs : create_task(a.title, a.description, a.priority)

(* ------------------------------- get_task ----------------------------- *)

\* variant: a lookup with dict.get, which yields None for a missing key
get_task_lenient(task_id) ==
    /\ pc = "idle"
    /\ UNCHANGED rt
    /\ pc' = "returned"
    /\ IF ~ HasKey(store, task_id)
       THEN last' = Observe("get", task_id, "ok", 0, 0, FALSE, 0, None, None)
       ELSE last' = Observe("get", task_id, "ok", 0, 0, FALSE, 0,
                            Some(GetItem(store, task_id)), None)
    /\ UNCHANGED <<store, history, issued>>

get_task(task_id) ==
    /\ pc = "idle"
    /\ UNCHANGED rt
    /\ pc' = "returned"
    /\ IF ~ HasKey(store, task_id)
       THEN last' = Observe("get", task_id, "NotFound", 0, 0, FALSE, 0, None,
                            None)
       ELSE last' = Observe("get", task_id, "ok", 0, 0, FALSE, 0,
                            Some(GetItem(store, task_id)), None)
    /\ UNCHANGED <<store, history, issued>>

GetTask == \E task_id \in IdInputs : get_task(task_id)

(* ------------------------------ update_task --------------------------- *)

\* a str status, a TaskStatus member, an int priority, a TaskPriority member
RawStatus(tok) == [kind |-> "str", tok |-> tok]

EnumStatus(tok) == [kind |-> "TaskStatus", tok |-> tok]

RawPriority(n) == [kind |-> "int", n |-> n]

EnumPriority(n) == [kind |-> "TaskPriority", n |-> n]

Args(title, description, status, priority) ==
    [ title |-> title, description |-> description, status |-> status,
      priority |-> priority ]

\* calls whose supplied values are all valid: no field, each field alone
\* and all four fields, with status and priority raw and as members
ValidArgs ==
    { Args(None, None, None, None),
      Args(Some(<<"b", " ">>), None, None, None),
      Args(None, Some("d"), None, None),
      Args(None, None, Some(RawStatus("DONE")), None),
      Args(None, None, Some(EnumStatus("DONE")), None),
      Args(None, None, None, Some(RawPriority(3))),
      Args(None, None, None, Some(EnumPriority(3))),
      Args(Some(<<"b", " ">>), Some("d"), Some(RawStatus("DONE")),
           Some(RawPriority(3))),
      Args(Some(<<"b", " ">>), Some("d"), Some(EnumStatus("DONE")),
           Some(EnumPriority(3))) }

\* calls with a value the validators reject: alone, and after a valid value
\* for a field that is handled earlier
InvalidArgs ==
    { Args(Some(<<" ">>), None, None, None),
      Args(None, None, Some(RawStatus("BAD")), None),
      Args(None, None, None, Some(RawPriority(10))),
      Args(None, Some("d"), None, Some(RawPriority(10))) }

\* the calls offered to update_task
UpdateArgs == ValidArgs \cup InvalidArgs

\* the local state of update_task while it walks through the four fields:
\* the task object (the one held by the store, mutated in place), the flag
\* has_changes, whether a ValueError was raised, and the assignments made
\* variant: the flag starts out set
UpdateStart_flag_set(task) ==
    [ task |-> task, has_changes |-> TRUE, raised |-> FALSE, writes |-> 0 ]

UpdateStart(task) ==
    [ task |-> task, has_changes |-> FALSE, raised |-> FALSE, writes |-> 0 ]

\* variant: the title is assigned without being validated
update_title_unchecked(u, title) ==
    IF u.raised \/ title = None THEN u
    ELSE IF u.task.title # title[1]
         THEN [u EXCEPT !.task.title = title[1], !.has_changes = TRUE,
                        !.writes = @ + 1]
         ELSE u

update_title(u, title) ==
    IF u.raised \/ title = None THEN u
    ELSE IF ~ _validate_title(title[1]) THEN [u EXCEPT !.raised = TRUE]
    ELSE IF u.task.title # title[1]
         THEN [u EXCEPT !.task.title = title[1], !.has_changes = TRUE,
                        !.writes = @ + 1]
         ELSE u

\* variant: the description is assigned without setting has_changes
update_description_unflagged(u, description) ==
    IF u.raised \/ description = None THEN u
    ELSE IF u.task.description # description[1]
         THEN [u EXCEPT !.task.description = description[1], !.writes = @ + 1]
         ELSE u

update_description(u, description) ==
    IF u.raised \/ description = None THEN u
    ELSE IF u.task.description # description[1]
         THEN [u EXCEPT !.task.description = description[1],
                        !.has_changes = TRUE, !.writes = @ + 1]
         ELSE u

update_status(u, status) ==
    IF u.raised \/ status = None THEN u
    ELSE IF ~ _validate_status(status[1]) THEN [u EXCEPT !.raised = TRUE]
    ELSE LET new_status == TaskStatus(status[1].tok)
         IN IF u.task.status # new_status
            THEN [u EXCEPT !.task.status = new_status, !.has_changes = TRUE,
                           !.writes = @ + 1]
            ELSE u

\* variant: the priority is assigned without setting has_changes
update_priority_unflagged(u, priority) ==
    IF u.raised \/ priority = None THEN u
    ELSE IF ~ _validate_priority(priority[1].n) THEN [u EXCEPT !.raised = TRUE]
    ELSE LET new_priority == TaskPriority(priority[1].n)
         IN IF u.task.priority # new_priority
            THEN [u EXCEPT !.task.priority = new_priority, !.writes = @ + 1]
            ELSE u

update_priority(u, priority) ==
    IF u.raised \/ priority = None THEN u
    ELSE IF ~ _validate_priority(priority[1].n) THEN [u EXCEPT !.raised = TRUE]
    ELSE LET new_priority == TaskPriority(priority[1].n)
         IN IF u.task.priority # new_priority
            THEN [u EXCEPT !.task.priority = new_priority,
                           !.has_changes = TRUE, !.writes = @ + 1]
            ELSE u

\* variant: created_at is assigned along with the fields
update_fields_restamped(task, a) ==
    LET u == update_priority(
                 update_status(
                     update_description(
                         update_title(UpdateStart(task), a.title),
                         a.description),
                     a.status),
                 a.priority)
    IN [u EXCEPT !.task.created_at = [wall |-> 0, off |-> 0]]

\* the four blocks in source order: title, description, status, priority
update_fields(task, a) ==
    update_priority(
        update_status(
            update_description(
                update_title(UpdateStart(task), a.title),
                a.description),
            a.status),
        a.priority)

\* observer: the number of optional fields supplied
Supplied(a) ==
    Len(a.title) + Len(a.description) + Len(a.status) + Len(a.priority)

\* observer: some supplied value is one the validators reject
Invalid(a) ==
    \/ a.title # None /\ ~ _validate_title(a.title[1])
    \/ a.status # None /\ ~ _validate_status(a.status[1])
    \/ a.priority # None /\ ~ _validate_priority(a.priority[1].n)

\* variant: _log is called without the timestamp and reads the clock itself
update_task_relogged(task_id, a) ==
    /\ pc = "idle"
    /\ UNCHANGED rt
    /\ pc' = "returned"
    /\ IF ~ HasKey(store, task_id)
       THEN /\ last' = Observe("update", task_id, "NotFound", 0, Supplied(a),
                               Invalid(a), 0, None, Some(a))
            /\ UNCHANGED <<store, history, issued>>
       ELSE LET u == update_fields(GetItem(store, task_id), a)
            IN IF u.raised
               THEN /\ store' = SetItem(store, task_id, u.task)
                    /\ last' = Observe("update", task_id, "InvalidValue", 0,
                                       Supplied(a), Invalid(a), u.writes, None,
                                       Some(a))
                    /\ UNCHANGED <<history, issued>>
               ELSE IF u.has_changes
               THEN /\ Len(history) < MaxHist
                    /\ \E update_time \in utcnow, event_time \in utcnow :
                         LET task == [u.task EXCEPT !.updated_at = update_time]
                         IN /\ store' = SetItem(store, task_id, task)
                            /\ history' = _log(history, "UPDATE", task_id,
                                               event_time)
                            /\ last' = Observe("update", task_id, "ok", 1,
                                               Supplied(a), Invalid(a),
                                               u.writes, Some(task), Some(a))
                    /\ UNCHANGED issued
               ELSE /\ store' = SetItem(store, task_id, u.task)
                    /\ last' = Observe("update", task_id, "ok", 0,
                                       Supplied(a), Invalid(a), u.writes,
                                       Some(u.task), Some(a))
                    /\ UNCHANGED <<history, issued>>

update_task(task_id, a) ==
    /\ pc = "idle"
    /\ UNCHANGED rt
    /\ pc' = "returned"
    /\ IF ~ HasKey(store, task_id)
       THEN /\ last' = Observe("update", task_id, "NotFound", 0, Supplied(a),
                               Invalid(a), 0, None, Some(a))
            /\ UNCHANGED <<store, history, issued>>
       ELSE LET u == update_fields(GetItem(store, task_id), a)
            IN IF u.raised
               THEN /\ store' = SetItem(store, task_id, u.task)
                    /\ last' = Observe("update", task_id, "InvalidValue", 0,
                                       Supplied(a), Invalid(a), u.writes, None,
                                       Some(a))
                    /\ UNCHANGED <<history, issued>>
               ELSE IF u.has_changes
               THEN /\ Len(history) < MaxHist
                    /\ \E update_time \in utcnow :
                         LET task == [u.task EXCEPT !.updated_at = update_time]
                         IN /\ store' = SetItem(store, task_id, task)
                            /\ history' = _log(history, "UPDATE", task_id,
                                               update_time)
                            /\ last' = Observe("update", task_id, "ok", 1,
                                               Supplied(a), Invalid(a),
                                               u.writes, Some(task), Some(a))
                    /\ UNCHANGED issued
               ELSE /\ store' = SetItem(store, task_id, u.task)
                    /\ last' = Observe("update", task_id, "ok", 0,
                                       Supplied(a), Invalid(a), u.writes,
                                       Some(u.task), Some(a))
                    /\ UNCHANGED <<history, issued>>

UpdateTask ==
    \E task_id \in IdInputs, a \in UpdateArgs : update_task(task_id, a)

(* ------------------------------ delete_task --------------------------- *)

\* variant: the entry is removed where the event should be logged
delete_task_log_skipped(task_id) ==
    /\ pc = "idle"
    /\ UNCHANGED rt
    /\ IF ~ HasKey(store, task_id)
       THEN /\ last' = Observe("delete", task_id, "NotFound", 0, 0, FALSE, 0,
                               None, None)
            /\ pc' = "returned"
            /\ UNCHANGED <<store, history, issued>>
       ELSE /\ store' = DelItem(store, task_id)
            /\ pc' = "delete_del"
            /\ last' = Observe("delete", task_id, "running", 0, 0, FALSE, 0,
                               None, None)
            /\ UNCHANGED <<history, issued>>

\* first half: get_task(task_id), then _log("DELETE", task_id), which reads
\* the clock itself because no timestamp is passed
delete_task_log(task_id) ==
    /\ pc = "idle"
    /\ UNCHANGED rt
    /\ IF ~ HasKey(store, task_id)
       THEN /\ last' = Observe("delete", task_id, "NotFound", 0, 0, FALSE, 0,
                               None, None)
            /\ pc' = "returned"
            /\ UNCHANGED <<store, history, issued>>
       ELSE /\ Len(history) < MaxHist
            /\ \E event_time \in utcnow :
                 history' = _log(history, "DELETE", task_id, event_time)
            /\ pc' = "delete_del"
            /\ last' = Observe("delete", task_id, "running", 1, 0, FALSE, 0,
                               None, None)
            /\ UNCHANGED <<store, issued>>

\* variant: the entry stays in the store
delete_task_del_kept ==
    /\ pc = "delete_del"
    /\ UNCHANGED rt
    /\ pc' = "returned"
    /\ last' = [last EXCEPT !.outcome = "ok"]
    /\ UNCHANGED <<store, history, issued>>

\* second half: del self._store[task_id], and the call returns None
delete_task_del ==
    /\ pc = "delete_del"
    /\ UNCHANGED rt
    /\ store' = DelItem(store, last.id)
    /\ pc' = "returned"
    /\ last' = [last EXCEPT !.outcome = "ok"]
    /\ UNCHANGED <<history, issued>>

DeleteTask == \E task_id \in IdInputs : delete_task_log(task_id)

(* ------------------------------ list_tasks ---------------------------- *)

\* list(self._store.values()): the stored tasks in insertion order
Values(d) == [i \in 1..Len(d) |-> d[i].val]

\* one step of the sort: t goes behind every task that is not created later
RECURSIVE insort(_, _)
insort(tasks, t) ==
    IF tasks = <<>> THEN <<t>>
    ELSE LET n == Len(tasks)
         IN IF instant(tasks[n].created_at) <= instant(t.created_at)
            THEN Append(tasks, t)
            ELSE Append(insort(SubSeq(tasks, 1, n - 1), t), tasks[n])

\* variant: the list is returned in insertion order
sort_skipped(tasks) == tasks

\* tasks.sort(key=lambda t: t.created_at): a stable sort; aware datetimes
\* compare by instant
RECURSIVE sort(_)
sort(tasks) ==
    IF tasks = <<>> THEN <<>>
    ELSE insort(sort(SubSeq(tasks, 1, Len(tasks) - 1)), tasks[Len(tasks)])

\* variant: the call reads the clock
list_tasks_clocked ==
    /\ pc = "idle"
    /\ UNCHANGED rt
    /\ pc' = "returned"
    /\ \E now \in utcnow :
         last' = Observe("list", 0, "ok", 1, 0, FALSE, 0,
                         Some(sort(Values(store))), None)
    /\ UNCHANGED <<store, history, issued>>

list_tasks ==
    /\ pc = "idle"
    /\ UNCHANGED rt
    /\ pc' = "returned"
    /\ last' = Observe("list", 0, "ok", 0, 0, FALSE, 0,
                       Some(sort(Values(store))), None)
    /\ UNCHANGED <<store, history, issued>>

(* ------------------------------ filter_tasks -------------------------- *)

FilterArgs(status, min_priority) ==
    [status |-> status, min_priority |-> min_priority]

\* the calls offered to filter_tasks: every pair of no status, "OPEN",
\* "DONE" with no bound, 3, 5; members in place of raw values; and values
\* that are no status token or no priority level
FilterInputs ==
    [ status : {None, Some(RawStatus("OPEN")), Some(RawStatus("DONE"))},
      min_priority : {None, Some(RawPriority(3)), Some(RawPriority(5))} ]
    \cup
    { FilterArgs(Some(EnumStatus("DONE")), Some(EnumPriority(3))),
      FilterArgs(Some(RawStatus("BAD")), None),
      FilterArgs(None, Some(RawPriority(0))),
      FilterArgs(None, Some(RawPriority(6))),
      FilterArgs(Some(RawStatus("BAD")), Some(RawPriority(3))),
      FilterArgs(Some(RawStatus("OPEN")), Some(RawPriority(6))) }

\* TaskStatus(status) / TaskPriority(min_priority) raises ValueError for a
\* raw value that is not the value of a member
filter_raises(a) ==
    \/ /\ a.status # None
       /\ a.status[1].kind = "str"
       /\ ~ IsTaskStatus(a.status[1].tok)
    \/ /\ a.min_priority # None
       /\ a.min_priority[1].kind = "int"
       /\ ~ IsTaskPriority(a.min_priority[1].n)

\* [t for t in tasks if t.status == filter_status]
filter_by_status(tasks, status) ==
    IF status = None THEN tasks
    ELSE LET filter_status == TaskStatus(status[1].tok)
         IN SelectSeq(tasks, LAMBDA t : t.status = filter_status)

\* variant: the bound itself is excluded
filter_by_priority_strict(tasks, min_priority) ==
    IF min_priority = None THEN tasks
    ELSE LET filter_min_priority == TaskPriority(min_priority[1].n)
         IN SelectSeq(tasks,
                LAMBDA t : t.priority.value > filter_min_priority.value)

\* [t for t in tasks if t.priority.value >= filter_min_priority.value]
filter_by_priority(tasks, min_priority) ==
    IF min_priority = None THEN tasks
    ELSE LET filter_min_priority == TaskPriority(min_priority[1].n)
         IN SelectSeq(tasks,
                LAMBDA t : t.priority.value >= filter_min_priority.value)

\* variant: an argument that cannot be converted yields an empty list
filter_tasks_lenient(a) ==
    /\ pc = "idle"
    /\ UNCHANGED rt
    /\ pc' = "returned"
    /\ IF filter_raises(a)
       THEN last' = Observe("filter", 0, "ok", 0, 0, TRUE, 0, Some(<<>>),
                            Some(a))
       ELSE last' = Observe("filter", 0, "ok", 0, 0, FALSE, 0,
                       Some(sort(filter_by_priority(
                                filter_by_status(Values(store), a.status),
                                a.min_priority))),
                       Some(a))
    /\ UNCHANGED <<store, history, issued>>

filter_tasks(a) ==
    /\ pc = "idle"
    /\ UNCHANGED rt
    /\ pc' = "returned"
    /\ IF filter_raises(a)
       THEN last' = Observe("filter", 0, "InvalidValue", 0, 0, TRUE, 0, None,
                            Some(a))
       ELSE last' = Observe("filter", 0, "ok", 0, 0, FALSE, 0,
                       Some(sort(filter_by_priority(
                                filter_by_status(Values(store), a.status),
                                a.min_priority))),
                       Some(a))
    /\ UNCHANGED <<store, history, issued>>

FilterTasks == \E a \in FilterInputs : filter_tasks(a)

(* -------------------------------- history ----------------------------- *)

\* variant: the events are handed over and the log starts afresh
History_drained ==
    /\ pc = "idle"
    /\ UNCHANGED rt
    /\ pc' = "returned"
    /\ last' = Observe("history", 0, "ok", 0, 0, FALSE, 0, Some(history), None)
    /\ history' = <<>>
    /\ UNCHANGED <<store, issued>>

\* the property history: return self._history
History ==
    /\ pc = "idle"
    /\ UNCHANGED rt
    /\ pc' = "returned"
    /\ last' = Observe("history", 0, "ok", 0, 0, FALSE, 0, Some(history), None)
    /\ UNCHANGED <<store, history, issued>>

(* ------------------------------- the caller --------------------------- *)

\* control is back with the caller, which has taken the result (the value
\* returned or the exception raised); the service accepts the next call
Return ==
    /\ pc = "returned"
    /\ UNCHANGED rt
    /\ pc' = "idle"
    /\ last' = NoCall
    /\ UNCHANGED <<store, history, issued>>

Next ==
    \/ CreateTask
    \/ GetTask
    \/ UpdateTask
    \/ DeleteTask
    \/ delete_task_del
    \/ list_tasks
    \/ FilterTasks
    \/ History
    \/ Return

Spec == Init /\ [][Next]_vars

(* ------------------- to_dict / from_dict round trip ------------------- *)

\* UTC offsets of the datetimes a caller may build a Task with
Offsets == {-1, 0, 1}

\* aware datetimes
Datetimes == [wall : Instants, off : Offsets]

\* the valid tasks the round trip is run on
TaskInputs ==
    { Task(1, <<"a">>, description, status, priority.value, created_at,
           updated_at) :
        description \in {"", "d"}, status \in TaskStatusMembers,
        priority \in TaskPriorityMembers, created_at \in Datetimes,
        updated_at \in Datetimes }

\* a task t; then d = t.to_dict(), t2 = Task.from_dict(d), d2 = t2.to_dict()
InitRoundTrip ==
    /\ store = <<>>
    /\ history = <<>>
    /\ issued = {}
    /\ pc = "idle"
    /\ last = NoCall
    /\ \E t \in TaskInputs :
         rt = [NoRoundTrip EXCEPT !.stage = "t", !.t = Some(t)]

Serialize ==
    /\ rt.stage = "t"
    /\ rt' = [rt EXCEPT !.stage = "d", !.d = Some(to_dict(rt.t[1]))]
    /\ UNCHANGED <<store, history, issued, pc, last>>

Deserialize ==
    /\ rt.stage = "d"
    /\ rt' = [rt EXCEPT !.stage = "t2", !.t2 = Some(from_dict(rt.d[1]))]
    /\ UNCHANGED <<store, history, issued, pc, last>>

Reserialize ==
    /\ rt.stage = "t2"
    /\ rt' = [rt EXCEPT !.stage = "d2", !.d2 = Some(to_dict(rt.t2[1]))]
    /\ UNCHANGED <<store, history, issued, pc, last>>

NextRoundTrip ==
    \/ Serialize
    \/ Deserialize
    \/ Reserialize

RoundTrip == InitRoundTrip /\ [][NextRoundTrip]_vars

(* ============================ properties ============================== *)

\* the four fields update_task can assign
SameFields(t1, t2) ==
    /\ t1.title = t2.title
    /\ t1.description = t2.description
    /\ t1.status = t2.status
    /\ t1.priority = t2.priority

\* the number of those fields in which two values of a task differ
NumChanged(t1, t2) ==
    (IF t1.title = t2.title THEN 0 ELSE 1)
        + (IF t1.description = t2.description THEN 0 ELSE 1)
        + (IF t1.status = t2.status THEN 0 ELSE 1)
        + (IF t1.priority = t2.priority THEN 0 ELSE 1)

\* the history entry for an action on an id at a datetime
Event(action, task_id, dt) ==
    [action |-> action, task_id |-> task_id, at |-> to_iso(dt)]

\* an id carries an event of the given kind
Logged(action, task_id) ==
    \E i \in 1..Len(history) :
        history[i].action = action /\ history[i].task_id = task_id

\* C1: an update_task call that fails with InvalidValue (ValueError) leaves
\* the store and the history exactly as they were before the call.
C1_FailedUpdateChangesNothing ==
    [][ (last'.op = "update" /\ last'.outcome = "InvalidValue")
            => (store' = store /\ history' = history) ]_vars

\* C2: whenever a step changes the title, description, status or priority
\* of a task that is live before and after it, the same step appends exactly
\* one UPDATE event for that id, stamped with the task's new updated_at.
C2_FieldChangeIsLoggedAndStamped ==
    [][ \A id \in IdInputs :
            ( /\ HasKey(store, id)
              /\ HasKey(store', id)
              /\ ~ SameFields(GetItem(store, id), GetItem(store', id)) )
            => history' = Append(history,
                   Event("UPDATE", id, GetItem(store', id).updated_at)) ]_vars

\* C3: an update_task call that returns normally after changing k >= 1
\* fields of the task reads the clock once and appends one UPDATE event,
\* carrying the updated id and stamped with the task's new updated_at; the
\* number of assignments it made is k, and the task is what it returns.
C3_ChangingUpdateLogsOnce ==
    [][ ( /\ last'.op = "update"
          /\ last'.outcome = "ok"
          /\ HasKey(store, last'.id)
          /\ NumChanged(GetItem(store, last'.id),
                        GetItem(store', last'.id)) >= 1 )
        => LET id == last'.id
               t == GetItem(store', id)
           IN /\ last'.ticks = 1
              /\ history' = Append(history, Event("UPDATE", id, t.updated_at))
              /\ last'.writes = NumChanged(GetItem(store, id), t)
              /\ last'.ret = Some(t) ]_vars

\* an update_task call has returned after assigning all four fields, and
\* its UPDATE event is the last entry of the history
C3_Witness ==
    /\ pc = "returned"
    /\ last.op = "update"
    /\ last.outcome = "ok"
    /\ last.writes = 4
    /\ history[Len(history)]
         = Event("UPDATE", last.id, GetItem(store, last.id).updated_at)

\* C4: an update_task call on a live id that returns normally with the four
\* fields as they were (every supplied value equals the current one, or no
\* value is supplied) leaves the store, updated_at included, and the history
\* unchanged, does not read the clock and returns the task; and every step
\* that appends an UPDATE event changes a field of the task it names.
C4_NoOpUpdateIsSilent ==
    [][ /\ ( /\ last'.op = "update"
             /\ last'.outcome = "ok"
             /\ HasKey(store, last'.id)
             /\ SameFields(GetItem(store, last'.id),
                           GetItem(store', last'.id)) )
           => /\ store' = store
              /\ history' = history
              /\ last'.ticks = 0
              /\ last'.ret = Some(GetItem(store, last'.id))
        /\ ( /\ Len(history') > Len(history)
             /\ history'[Len(history')].action = "UPDATE" )
           => LET id == history'[Len(history')].task_id
              IN /\ HasKey(store, id)
                 /\ HasKey(store', id)
                 /\ ~ SameFields(GetItem(store, id), GetItem(store', id))
      ]_vars

\* an update_task call that supplied all four fields, each equal to the
\* current value, has returned without an assignment or a clock reading
C4_Witness ==
    /\ pc = "returned"
    /\ last.op = "update"
    /\ last.outcome = "ok"
    /\ last.supplied = 4
    /\ last.writes = 0
    /\ last.ticks = 0
    /\ last.ret = Some(GetItem(store, last.id))

\* C5: a create_task call that returns normally inserts exactly one task,
\* after the ones already stored and under a key that was not in use; the
\* task has the key as its id, status OPEN, the title, description and
\* priority given, and created_at = updated_at; the call reads the clock
\* once and appends exactly one CREATE event with that id and that time;
\* every task stored before and every earlier event is as it was.
C5_CreateAddsOneTaskAndOneEvent ==
    [][ (last'.op = "create" /\ last'.outcome = "ok")
        => LET id == last'.id
               a == last'.args[1]
               t == GetItem(store', id)
           IN /\ ~ HasKey(store, id)
              /\ store' = Append(store, [key |-> id, val |-> t])
              /\ t.id = id
              /\ t.status = [name |-> "OPEN", value |-> "OPEN"]
              /\ t.title = a.title
              /\ t.description = a.description
              /\ t.priority.value = a.priority
              /\ t.created_at = t.updated_at
              /\ history' = Append(history, Event("CREATE", id, t.created_at))
              /\ last'.ticks = 1
              /\ last'.ret = Some(t) ]_vars

\* a create_task call has returned a second task while an earlier task,
\* changed since its creation, is still stored
C5_Witness ==
    /\ pc = "returned"
    /\ last.op = "create"
    /\ last.outcome = "ok"
    /\ Len(store) = 2
    /\ store[2].key = last.id
    /\ store[1].val.updated_at # store[1].val.created_at

\* the arguments create_task must reject: a title that is empty after
\* trimming, or a priority outside 1..5
Rejected(a) ==
    \/ \A i \in 1..Len(a.title) : a.title[i] = " "
    \/ a.priority \notin 1..5

\* C6: a create_task call fails with InvalidValue exactly if its title is
\* empty or whitespace-only or its priority is outside 1..5 (so a call with
\* a valid title and priority and an empty description succeeds); a failing
\* call leaves the store and the history unchanged and does not read the
\* clock.
C6_CreateValidation ==
    [][ (last'.op = "create")
        => /\ last'.outcome = (IF Rejected(last'.args[1])
                               THEN "InvalidValue" ELSE "ok")
           /\ last'.outcome = "InvalidValue"
                => /\ store' = store
                   /\ history' = history
                   /\ last'.ticks = 0 ]_vars

\* a create_task call with a whitespace-only title and a valid priority has
\* failed on a store that holds a task
C6_Witness ==
    /\ pc = "returned"
    /\ last.op = "create"
    /\ last.outcome = "InvalidValue"
    /\ last.args[1].title = <<" ">>
    /\ last.args[1].priority = 1
    /\ Len(store) >= 1
    /\ Len(history) >= 1

\* C7: a get_task, update_task or delete_task call addressed to an id that
\* is not in the store (not issued yet, or deleted) fails with NotFound,
\* leaves the store and the history unchanged and does not read the clock,
\* whatever fields an update_task supplies, valid or not.
C7_UnknownIdIsNotFound ==
    [][ ( /\ last'.op \in {"get", "update", "delete"}
          /\ ~ HasKey(store, last'.id) )
        => /\ last'.outcome = "NotFound"
           /\ store' = store
           /\ history' = history
           /\ last'.ticks = 0 ]_vars

\* an update_task call that supplied a value the validators reject has
\* failed with NotFound on the id of a deleted task
C7_Witness ==
    /\ pc = "returned"
    /\ last.op = "update"
    /\ last.outcome = "NotFound"
    /\ last.invalid
    /\ Logged("DELETE", last.id)
    /\ ~ HasKey(store, last.id)

\* the delete_task call for an id has logged its event and removed the task
Deleted(task_id) ==
    /\ Logged("DELETE", task_id)
    /\ ~ (pc = "delete_del" /\ last.id = task_id)

\* C8: once delete_task(id) has completed, the id is not in the store, no
\* step puts it back (create_task never issues it again), and every later
\* get_task, update_task or delete_task addressed to it fails with NotFound.
C8_DeletedIdStaysUnresolvable ==
    /\ [](\A id \in IdInputs : Deleted(id) => ~ HasKey(store, id))
    /\ [][ \A id \in IdInputs :
              Deleted(id)
              => /\ ~ HasKey(store', id)
                 /\ ( /\ last'.op \in {"get", "update", "delete"}
                      /\ last'.id = id )
                    => last'.outcome = "NotFound" ]_vars

\* a get_task for the id of a deleted task has failed with NotFound after a
\* later create_task stored a new task
C8_Witness ==
    /\ pc = "returned"
    /\ last.op = "get"
    /\ last.outcome = "NotFound"
    /\ Deleted(last.id)
    /\ Len(store) = 1
    /\ history[Len(history)].action = "CREATE"

\* C9: delete_task on a stored id first appends one DELETE event for that
\* id, with the task still stored and nothing else changed, and then removes
\* exactly that task, with the history as it is; no id that was issued is
\* ever out of the store without its DELETE event in the history.
C9_DeleteLogsThenRemoves ==
    /\ [](\A id \in issued : HasKey(store, id) \/ Logged("DELETE", id))
    /\ [][ /\ (pc' = "delete_del")
              => /\ HasKey(store, last'.id)
                 /\ store' = store
                 /\ \E t \in Instants :
                      history' = Append(history,
                          [action |-> "DELETE", task_id |-> last'.id,
                           at |-> <<t, 0>>])
           /\ (pc = "delete_del")
              => /\ store' = SelectSeq(store, LAMBDA e : e.key # last.id)
                 /\ Len(store') = Len(store) - 1
                 /\ history' = history
                 /\ last'.op = "delete"
                 /\ last'.id = last.id
                 /\ last'.outcome = "ok" ]_vars

\* the point in between: the DELETE event is the last entry of the history
\* and the task is still stored, next to another task
C9_Witness ==
    /\ pc = "delete_del"
    /\ history[Len(history)].action = "DELETE"
    /\ history[Len(history)].task_id = last.id
    /\ HasKey(store, last.id)
    /\ Len(store) = 2

\* C10: every step leaves the history as it is or appends one event to it:
\* the history before a call is a prefix of the history after it, at most
\* one longer.
C10_HistoryAppendOnly ==
    [][ /\ Len(history') \in {Len(history), Len(history) + 1}
        /\ SubSeq(history', 1, Len(history)) = history ]_vars

\* a call has appended an event to a history that already holds events of
\* other calls
C10_Witness ==
    /\ pc = "returned"
    /\ last.outcome = "ok"
    /\ last.ticks = 1
    /\ Len(history) = 3
    /\ history[1].action = "CREATE"
    /\ history[2].action = "UPDATE"
    /\ history[3].action = "DELETE"

\* the history as the callers' sequence of (action, task_id) pairs
Pairs(h) == [i \in 1..Len(h) |-> <<h[i].action, h[i].task_id>>]

\* C11: the (action, task_id) pairs of the history are, in call order, the
\* calls that took effect: a create_task that returns normally adds
\* (CREATE, its id) at the end, an update_task that returns normally with a
\* field changed adds (UPDATE, its id), a delete_task of a stored id adds
\* (DELETE, its id); every other step (failed calls, no-op updates, reads)
\* leaves the history as it is; the timestamps play no part in the order.
C11_HistoryIsCallOrder ==
    [][ IF pc' = "returned" /\ last'.op = "create" /\ last'.outcome = "ok"
        THEN Pairs(history') = Append(Pairs(history), <<"CREATE", last'.id>>)
        ELSE IF /\ pc' = "returned"
                /\ last'.op = "update"
                /\ last'.outcome = "ok"
                /\ NumChanged(GetItem(store, last'.id),
                              GetItem(store', last'.id)) >= 1
        THEN Pairs(history') = Append(Pairs(history), <<"UPDATE", last'.id>>)
        ELSE IF pc = "idle" /\ pc' = "delete_del"
        THEN Pairs(history') = Append(Pairs(history), <<"DELETE", last'.id>>)
        ELSE history' = history ]_vars

\* a no-op update_task has returned and the history holds the three calls
\* before it that took effect, in call order, the second one stamped with
\* an earlier time than the first
C11_Witness ==
    /\ pc = "returned"
    /\ last.op = "update"
    /\ last.outcome = "ok"
    /\ last.ticks = 0
    /\ Pairs(history) = << <<"CREATE", 1>>, <<"UPDATE", 1>>, <<"DELETE", 1>> >>
           \/ Pairs(history) = << <<"CREATE", 1>>, <<"CREATE", 2>>,
                                  <<"UPDATE", 2>> >>
    /\ Len(history) = 3
    /\ history[2].at[1] < history[1].at[1]

\* C12: a call reads the clock once if it takes effect (a create_task that
\* returns normally, an update_task that returns normally with a field
\* changed, a delete_task of a stored id) and not at all otherwise (failed
\* calls, no-op updates, get_task, list_tasks, filter_tasks, history); the
\* one reading of create_task is the task's created_at, its updated_at and
\* the time of the CREATE event, the one reading of update_task is the new
\* updated_at and the time of the UPDATE event, and the one reading of
\* delete_task is the time of the DELETE event.
C12_ClockReadOncePerEffect ==
    [][ (pc = "idle" /\ pc' # "idle")
        => LET id == last'.id
               e == history'[Len(history')]
           IN IF last'.op = "create" /\ last'.outcome = "ok"
              THEN /\ last'.ticks = 1
                   /\ \E now \in utcnow :
                        /\ GetItem(store', id).created_at = now
                        /\ GetItem(store', id).updated_at = now
                        /\ e.at = to_iso(now)
              ELSE IF /\ last'.op = "update"
                      /\ last'.outcome = "ok"
                      /\ ~ SameFields(GetItem(store, id), GetItem(store', id))
              THEN /\ last'.ticks = 1
                   /\ \E now \in utcnow :
                        /\ GetItem(store', id).updated_at = now
                        /\ e.at = to_iso(now)
              ELSE IF last'.op = "delete" /\ HasKey(store, id)
              THEN /\ last'.ticks = 1
                   /\ \E now \in utcnow : e.at = to_iso(now)
              ELSE /\ last'.ticks = 0
                   /\ history' = history
                   /\ \A i \in 1..Len(store) :
                        /\ HasKey(store', store[i].key)
                        /\ GetItem(store', store[i].key).updated_at
                             = store[i].val.updated_at ]_vars

\* a list_tasks call has returned without a clock reading, after a create,
\* an update and a delete that read the clock once each
C12_Witness ==
    /\ pc = "returned"
    /\ last.op = "list"
    /\ last.ticks = 0
    /\ Len(history) = 3
    /\ history[2].action = "UPDATE"
    /\ history[3].action = "DELETE"

\* C13: the list a list_tasks call returns holds every stored task exactly
\* once and nothing else, and is in non-decreasing order of created_at,
\* whatever the insertion order of the store is.
C13_ListIsLiveTasksByCreation ==
    (pc = "returned" /\ last.op = "list")
    => LET r == last.ret[1]
       IN /\ last.outcome = "ok"
          /\ Len(r) = Len(store)
          /\ \A i \in 1..Len(store) :
                Cardinality({ j \in 1..Len(r) : r[j] = store[i].val }) = 1
          /\ \A j \in 1..Len(r) : \A k \in 1..Len(r) :
                j < k => instant(r[j].created_at) <= instant(r[k].created_at)

\* a list_tasks call has returned two tasks in the reverse of the order in
\* which they were inserted, the first of them updated since its creation
C13_Witness ==
    /\ pc = "returned"
    /\ last.op = "list"
    /\ Len(store) = 2
    /\ instant(store[2].val.created_at) < instant(store[1].val.created_at)
    /\ store[2].val.updated_at # store[2].val.created_at
    /\ last.ret[1] = <<store[2].val, store[1].val>>

\* a task satisfies the predicates a filter_tasks call supplies
Matches(t, a) ==
    /\ a.status # None => t.status.value = a.status[1].tok
    /\ a.min_priority # None => t.priority.value >= a.min_priority[1].n

\* C14: a filter_tasks call whose status, if supplied, is one of the three
\* tokens and whose min_priority, if supplied, is in 1..5 returns normally,
\* and what it returns is the list list_tasks would return with the tasks
\* dropped that fail a supplied predicate (status equal, priority number
\* >= min_priority); with nothing supplied it is that list itself.
C14_FilterIsSublistOfList ==
    ( /\ pc = "returned"
      /\ last.op = "filter"
      /\ LET a == last.args[1]
         IN /\ a.status # None
                 => a.status[1].tok \in {"OPEN", "IN_PROGRESS", "DONE"}
            /\ a.min_priority # None => a.min_priority[1].n \in 1..5 )
    => LET a == last.args[1]
           listed == sort(Values(store))
       IN /\ last.outcome = "ok"
          /\ last.ret[1] = SelectSeq(listed, LAMBDA t : Matches(t, a))
          /\ (a.status = None /\ a.min_priority = None)
                => last.ret[1] = listed

\* a filter_tasks call with both predicates has returned one of two stored
\* tasks, the one whose priority equals min_priority
C14_Witness ==
    /\ pc = "returned"
    /\ last.op = "filter"
    /\ last.outcome = "ok"
    /\ last.args[1].status # None
    /\ last.args[1].min_priority # None
    /\ Len(store) = 2
    /\ Len(last.ret[1]) = 1
    /\ last.ret[1][1].priority.value = last.args[1].min_priority[1].n

\* the number of events of a kind in a history
RECURSIVE Count(_, _)
Count(h, action) ==
    IF h = <<>> THEN 0
    ELSE (IF Head(h).action = action THEN 1 ELSE 0) + Count(Tail(h), action)

\* C15: the stored tasks have pairwise distinct keys and pairwise distinct
\* ids; as long as no delete_task has taken effect, the store holds as many
\* tasks as create_task calls have returned normally; and every create_task
\* that returns normally makes the store one task longer, with every task
\* stored before still stored, in its place and unchanged.
C15_CreatesAreDistinct ==
    /\ [] ( /\ Cardinality(Keys(store)) = Len(store)
            /\ Cardinality({ store[i].val.id : i \in 1..Len(store) })
                 = Len(store)
            /\ Count(history, "DELETE") = 0
                 => /\ Len(store) = Count(history, "CREATE")
                    /\ Len(store) = Cardinality(issued) )
    /\ [][ (last'.op = "create" /\ last'.outcome = "ok")
           => /\ Len(store') = Len(store) + 1
              /\ Cardinality(Keys(store')) = Cardinality(Keys(store)) + 1
              /\ SubSeq(store', 1, Len(store)) = store ]_vars

\* a second create_task has returned with no delete_task so far: two tasks
\* with two ids are stored
C15_Witness ==
    /\ pc = "returned"
    /\ last.op = "create"
    /\ last.outcome = "ok"
    /\ Count(history, "CREATE") = 2
    /\ Count(history, "DELETE") = 0
    /\ Len(store) = 2
    /\ store[1].val.id # store[2].val.id

\* C16: every stored task has a title with a character that is not
\* whitespace, a priority that is one of the levels 1..5, a status that is
\* one of OPEN, IN_PROGRESS, DONE, and the key it is stored under as its id;
\* this holds after failed calls too.
C16_StoredTasksAreValid ==
    \A i \in 1..Len(store) :
        LET t == store[i].val
        IN /\ \E k \in 1..Len(t.title) : t.title[k] \notin Whitespace
           /\ t.priority \in TaskPriorityMembers
           /\ t.priority.value \in 1..5
           /\ t.status \in TaskStatusMembers
           /\ t.status.value \in {"OPEN", "IN_PROGRESS", "DONE"}
           /\ t.id = store[i].key

\* an update_task call has failed with InvalidValue after assigning a field
\* of a stored task
C16_Witness ==
    /\ pc = "returned"
    /\ last.op = "update"
    /\ last.outcome = "InvalidValue"
    /\ last.writes >= 1
    /\ HasKey(store, last.id)
    /\ GetItem(store, last.id).description = "d"

\* C17: every stored task has updated_at >= created_at, whatever times the
\* clock returns to the create_task and update_task calls.
C17_UpdatedNotBeforeCreated ==
    \A i \in 1..Len(store) :
        instant(store[i].val.updated_at) >= instant(store[i].val.created_at)

\* C18: no step changes the id or the created_at of a task that is stored
\* before and after it, whatever fields an update_task call supplies; and
\* the task a get_task call returns, and the tasks a list_tasks call
\* returns, are the stored tasks, so they carry these values.
C18_IdAndCreatedAtAreFixed ==
    /\ [][ \A i \in 1..Len(store) :
              HasKey(store', store[i].key)
              => /\ GetItem(store', store[i].key).id = store[i].val.id
                 /\ GetItem(store', store[i].key).created_at
                      = store[i].val.created_at ]_vars
    /\ [] ( (pc = "returned" /\ last.op = "get" /\ last.outcome = "ok")
            => last.ret = Some(GetItem(store, last.id)) )
    /\ [] ( (pc = "returned" /\ last.op = "list")
            => \A j \in 1..Len(last.ret[1]) :
                 /\ HasKey(store, last.ret[1][j].id)
                 /\ last.ret[1][j] = GetItem(store, last.ret[1][j].id) )

\* a get_task call has returned a task whose four fields were all changed
\* by an update_task after its creation; its created_at is the time of its
\* CREATE event and differs from its updated_at
C18_Witness ==
    /\ pc = "returned"
    /\ last.op = "get"
    /\ last.outcome = "ok"
    /\ last.ret[1].id = 1
    /\ last.ret[1].title = <<"b", " ">>
    /\ last.ret[1].status.value = "DONE"
    /\ history[1] = Event("CREATE", 1, last.ret[1].created_at)
    /\ last.ret[1].updated_at # last.ret[1].created_at

\* the entries of a store under keys other than the given one
Others(d, k) == SelectSeq(d, LAMBDA e : e.key # k)

\* C20: an update_task call leaves every other task, and the number and
\* order of the stored tasks, as they are, and changes none of title,
\* description, status, priority of its own task that it was not given, nor
\* its id or created_at; the removing step of delete_task removes the
\* addressed task and leaves the others as they are; and the set of stored
\* ids changes only by a create_task adding its new id or by a delete_task
\* removing its id.
C20_UpdateAndDeleteAreLocal ==
    [][ /\ (pc = "idle" /\ last'.op = "update")
           => /\ Keys(store') = Keys(store)
              /\ Others(store', last'.id) = Others(store, last'.id)
              /\ HasKey(store, last'.id)
                   => LET a == last'.args[1]
                          old == GetItem(store, last'.id)
                          new == GetItem(store', last'.id)
                      IN /\ IndexOf(store', last'.id) = IndexOf(store, last'.id)
                         /\ a.title = None => new.title = old.title
                         /\ a.description = None
                              => new.description = old.description
                         /\ a.status = None => new.status = old.status
                         /\ a.priority = None => new.priority = old.priority
                         /\ new.id = old.id
                         /\ new.created_at = old.created_at
        /\ (last'.op = "delete")
           => /\ Others(store', last'.id) = Others(store, last'.id)
              /\ pc = "delete_del" => ~ HasKey(store', last'.id)
        /\ Keys(store') # Keys(store)
           => \/ /\ last'.op = "create"
                 /\ last'.id \notin Keys(store)
                 /\ Keys(store') = Keys(store) \cup {last'.id}
              \/ /\ last'.op = "delete"
                 /\ last'.id \in Keys(store)
                 /\ Keys(store') = Keys(store) \ {last'.id} ]_vars

\* an update_task call that was given one field has changed it, with
\* another task stored next to the one it addressed
C20_Witness ==
    /\ pc = "returned"
    /\ last.op = "update"
    /\ last.outcome = "ok"
    /\ last.supplied = 1
    /\ last.writes = 1
    /\ Len(store) = 2

\* C19: for every valid task t, Task.from_dict(t.to_dict()) == t, field by
\* field, and serializing that task again gives the dict t.to_dict() gave.
C19_RoundTrip ==
    /\ rt.stage \in {"t2", "d2"} => Task_eq(rt.t2[1], rt.t[1])
    /\ rt.stage = "d2" => rt.d2 = rt.d

\* the round trip of a DONE task of priority 5 whose datetimes carry
\* offsets other than UTC has been run to its end
C19_Witness ==
    /\ rt.stage = "d2"
    /\ rt.t[1].status.value = "DONE"
    /\ rt.t[1].priority.value = 5
    /\ rt.t[1].created_at.off = 1
    /\ rt.t[1].updated_at.off = -1
    /\ rt.d[1].status = "DONE"
    /\ rt.d[1].priority = 5

\* C21: a get_task, list_tasks, filter_tasks or history call, whether it
\* returns or fails (NotFound, InvalidValue), leaves the stored tasks, their
\* order in the store and the history exactly as they were; history returns
\* the events logged so far.
C21_ReadsChangeNothing ==
    [][ (pc = "idle" /\ last'.op \in {"get", "list", "filter", "history"})
        => /\ store' = store
           /\ history' = history
           /\ issued' = issued
           /\ last'.op = "history" => last'.ret = Some(history) ]_vars

\* a filter_tasks call has failed with InvalidValue on a store of two tasks
\* and a history of three events
C21_Witness ==
    /\ pc = "returned"
    /\ last.op = "filter"
    /\ last.outcome = "InvalidValue"
    /\ Len(store) = 2
    /\ Len(history) = 3

\* the actions of the events that carry an id, in the order of the history
ActionsOf(task_id) ==
    LET sub == SelectSeq(history, LAMBDA e : e.task_id = task_id)
    IN [i \in 1..Len(sub) |-> sub[i].action]

\* C22: for every id, the events that carry it are none at all, or one
\* CREATE first, then UPDATE events only, except that the last event may be
\* a DELETE; and the id is in the store exactly if there is a CREATE and no
\* DELETE of a delete_task that has completed (the DELETE is logged while
\* the task is still stored and the task is removed before the call
\* returns).
C22_EventsPerIdAreWellFormed ==
    \A id \in IdInputs :
        LET acts == ActionsOf(id)
            n == Len(acts)
        IN /\ n > 0 => acts[1] = "CREATE"
           /\ \A i \in 2..n :
                /\ acts[i] # "CREATE"
                /\ acts[i] = "DELETE" => i = n
           /\ \A i \in 1..n : acts[i] \in {"CREATE", "UPDATE", "DELETE"}
           /\ HasKey(store, id)
                <=> /\ n > 0
                    /\ \/ acts[n] # "DELETE"
                       \/ pc = "delete_del" /\ last.id = id

\* the first task was created and deleted around the creation of a second
\* task, which alone is stored
C22_Witness ==
    /\ pc = "idle"
    /\ ActionsOf(1) = <<"CREATE", "DELETE">>
    /\ ActionsOf(2) = <<"CREATE">>
    /\ Keys(store) = {2}

\* the CREATE and UPDATE events that carry an id, in the order of the history
Stamps(task_id) ==
    SelectSeq(history,
        LAMBDA e : e.task_id = task_id /\ e.action \in {"CREATE", "UPDATE"})

\* C23: for every stored task, the time of its CREATE event is its
\* created_at, and the time of the latest CREATE or UPDATE event that
\* carries its id is its updated_at (both as to_iso writes them).
C23_EventTimesAreTaskTimes ==
    \A i \in 1..Len(store) :
        LET t == store[i].val
            stamps == Stamps(store[i].key)
        IN /\ Len(stamps) >= 1
           /\ stamps[1].action = "CREATE"
           /\ stamps[1].at = to_iso(t.created_at)
           /\ stamps[Len(stamps)].at = to_iso(t.updated_at)

\* two tasks are stored; the second was updated at a time other than that
\* of its creation, and a failing update_task has written to it since
C23_Witness ==
    /\ pc = "returned"
    /\ last.op = "update"
    /\ last.outcome = "InvalidValue"
    /\ last.writes = 1
    /\ last.id = 2
    /\ Len(store) = 2
    /\ Len(Stamps(2)) = 2
    /\ Stamps(2)[2].at # Stamps(2)[1].at

\* C24: a filter_tasks call given a status that is none of the three tokens,
\* or a min_priority outside 1..5, fails with InvalidValue and returns no
\* list, whether or not tasks are stored and whatever the other argument
\* is, and leaves the store and the history as they were.
C24_FilterRejectsInvalidArguments ==
    [][ ( /\ pc = "idle"
          /\ last'.op = "filter"
          /\ LET a == last'.args[1]
             IN \/ /\ a.status # None
                   /\ a.status[1].tok \notin {"OPEN", "IN_PROGRESS", "DONE"}
                \/ /\ a.min_priority # None
                   /\ a.min_priority[1].n \notin 1..5 )
        => /\ last'.outcome = "InvalidValue"
           /\ last'.ret = None
           /\ store' = store
           /\ history' = history ]_vars

\* a filter_tasks call with min_priority 0 and no status has failed with
\* InvalidValue on the empty store
C24_Witness ==
    /\ pc = "returned"
    /\ last.op = "filter"
    /\ last.outcome = "InvalidValue"
    /\ last.args[1].status = None
    /\ last.args[1].min_priority = Some(RawPriority(0))
    /\ store = <<>>

====
